---- MODULE Spec2Model ----
(***************************************************************************)
(* A model of the book service of backend/app.py: the books table, the     *)
(* startup seeder, the payload validator and the five API handlers         *)
(* (listing, create, update, delete, stats).                               *)
(*                                                                         *)
(* Representation.                                                         *)
(*  - A Python str is a sequence of one-character strings, so that         *)
(*    strip(), lower(), int(), float() and ILIKE are computed on the       *)
(*    characters.                                                          *)
(*  - A Python float is a record [k, v]: k = "num" with v the value in     *)
(*    thousandths, k = "inf" with v the sign, or k = "nan".  Comparisons   *)
(*    with nan are false, as in IEEE 754.                                  *)
(*  - None is the record NoneV; a JSON value is a record [t, s, n, f].     *)
(*  - The database is PostgreSQL (the only URL scheme app.py rewrites):    *)
(*    ids come from a sequence that never goes back, double precision      *)
(*    columns store nan and infinity.                                      *)
(***************************************************************************)
EXTENDS Integers, Sequences, FiniteSets, TLC

\* ------------------------------------------------------------------ bounds
\* Number of POSTs the model follows.
MaxCreates == 1
\* Number of successful PUTs the model follows.
MaxUpdates == 1
\* Number of successful DELETEs the model follows.
MaxDeletes == 1
\* Number of process restarts (re-runs of seed_if_needed) the model follows.
MaxRestarts == 1
\* Largest value of the wall clock (datetime.utcnow) the model follows.
MaxClock == 1

\* ------------------------------------------------------------- characters
\* The printable ASCII characters in code-point order (index = code - 31);
\* "grave" stands for the grave accent, which a TLA+ string cannot hold.
Ascii ==
   <<" ", "!", "\"", "#", "$", "%", "&", "'", "(", ")", "*", "+", ",", "-", ".", "/",
      "0", "1", "2", "3", "4", "5", "6", "7", "8", "9", ":", ";", "<", "=", ">", "?",
      "@", "A", "B", "C", "D", "E", "F", "G", "H", "I", "J", "K", "L", "M", "N", "O",
      "P", "Q", "R", "S", "T", "U", "V", "W", "X", "Y", "Z", "[", "\\", "]", "^", "_",
      "grave", "a", "b", "c", "d", "e", "f", "g", "h", "i", "j", "k", "l", "m", "n", "o",
      "p", "q", "r", "s", "t", "u", "v", "w", "x", "y", "z", "{", "|", "}", "~">>

CharSet == {Ascii[i] : i \in 1..Len(Ascii)}

CodeOf == [c \in CharSet |-> (CHOOSE i \in 1..Len(Ascii) : Ascii[i] = c) + 31]

\* str.lower() on one character.
LowerChar == [c \in CharSet |-> IF CodeOf[c] >= 65 /\ CodeOf[c] <= 90 THEN Ascii[CodeOf[c] + 1] ELSE c]

\* str.lower()
Lower(s) == [i \in 1..Len(s) |-> LowerChar[s[i]]]

\* str.strip(): drops the leading and trailing whitespace.
RECURSIVE LStrip(_)
LStrip(s) == IF s # <<>> /\ Head(s) = " " THEN LStrip(Tail(s)) ELSE s

RECURSIVE RStrip(_)
RStrip(s) == IF s # <<>> /\ s[Len(s)] = " " THEN RStrip(SubSeq(s, 1, Len(s) - 1)) ELSE s

Strip(s) == RStrip(LStrip(s))

Digit == [c \in {"0", "1", "2", "3", "4", "5", "6", "7", "8", "9"} |-> CodeOf[c] - 48]

\* The value of a string of decimal digits.
RECURSIVE DigitsValue(_)
DigitsValue(s) == IF s = <<>> THEN 0 ELSE 10 * DigitsValue(SubSeq(s, 1, Len(s) - 1)) + Digit[s[Len(s)]]

\* str(n) of a natural number.
RECURSIVE NatStr(_)
NatStr(n) == IF n < 10 THEN <<Ascii[n + 17]>> ELSE NatStr(n \div 10) \o <<Ascii[(n % 10) + 17]>>

\* str(n) of an int.
IntStr(n) == IF n < 0 THEN <<"-">> \o NatStr(-n) ELSE NatStr(n)

\* Lexicographic order on strings by code point (the order of a C
\* collation), from position i on, the characters before it being equal.
RECURSIVE StrLessFrom(_, _, _)
StrLessFrom(a, b, i) ==
   IF i > Len(b) THEN FALSE
   ELSE IF i > Len(a) THEN TRUE
   ELSE IF a[i] = b[i] THEN StrLessFrom(a, b, i + 1)
   ELSE CodeOf[a[i]] < CodeOf[b[i]]

StrLess(a, b) == StrLessFrom(a, b, 1)

\* ----------------------------------------------------------------- values
NoneV == [k |-> "none", v |-> 0]

Num(m) == [k |-> "num", v |-> m]

NaN == [k |-> "nan", v |-> 0]

Inf(sign) == [k |-> "inf", v |-> sign]

\* One unit of a float, in thousandths.
Unit == 10 * 10 * 10

\* a < b on floats.
FLess(a, b) ==
   CASE a.k = "nan" \/ b.k = "nan" -> FALSE
     [] a.k = "num" /\ b.k = "num" -> a.v < b.v
     [] a.k = "inf" /\ b.k = "num" -> a.v < 0
     [] a.k = "num" /\ b.k = "inf" -> b.v > 0
     [] OTHER -> a.v < b.v

\* a + b on floats.
FAdd(a, b) ==
   CASE a.k = "nan" \/ b.k = "nan" -> NaN
     [] a.k = "num" /\ b.k = "num" -> Num(a.v + b.v)
     [] a.k = "inf" /\ b.k = "num" -> a
     [] a.k = "num" /\ b.k = "inf" -> b
     [] OTHER -> IF a.v = b.v THEN a ELSE NaN

\* n / d rounded to the nearest integer, halves to the even one (d > 0).
RoundDiv(n, d) ==
   LET q == n \div d
       r == n % d
   IN  IF 2 * r < d THEN q
       ELSE IF 2 * r > d THEN q + 1
       ELSE IF q % 2 = 0 THEN q ELSE q + 1

\* round(x, 2) on a float.
Round2(x) == IF x.k = "num" THEN Num(10 * RoundDiv(x.v, 10)) ELSE x

\* ------------------------------------------------------- program constants
PLACEHOLDER_IMG ==
   <<"h", "t", "t", "p", "s", ":", "/", "/", "p", "l", "a", "c", "e", "h", "o", "l", "d", ".",
     "c", "o", "/", "1", "6", "0", "x", "2", "2", "0", "?", "t", "e", "x", "t", "=",
     "B", "o", "o", "k">>

ALLOWED_PAGE_SIZES == {5, 10, 20, 50}

ALLOWED_SORT_FIELDS ==
   { <<"t", "i", "t", "l", "e">>,
     <<"a", "u", "t", "h", "o", "r">>,
     <<"y", "e", "a", "r">>,
     <<"r", "a", "t", "i", "n", "g">>,
     <<"p", "r", "i", "c", "e">>,
     <<"c", "r", "e", "a", "t", "e", "d", "_", "a", "t">> }

Other == <<"O", "t", "h", "e", "r">>

CATEGORY_OPTIONS ==
   << <<"F", "a", "n", "t", "a", "s", "y">>,
      <<"S", "c", "i", "-", "F", "i">>,
      <<"C", "l", "a", "s", "s", "i", "c">>,
      <<"H", "o", "r", "r", "o", "r">>,
      <<"M", "y", "s", "t", "e", "r", "y">>,
      <<"N", "o", "n", "-", "F", "i", "c", "t", "i", "o", "n">>,
      Other >>

CategorySet == {CATEGORY_OPTIONS[i] : i \in 1..Len(CATEGORY_OPTIONS)}

\* seed_if_needed fills the table up to this many rows.
SeedTarget == 30

\* The largest year validate_book_payload accepts.
MaxYear == 2100

\* The largest rating validate_book_payload accepts.
MaxRating == 5

\* The page and page size get_books and stats fall back to.
DefaultPage == 1

DefaultPageSize == 10

\* ------------------------------------------------------------ JSON values
\* A value of the request's JSON object: t is its type, s its characters
\* (str), n its integer (int, bool: 1 or 0), f its float.
Absent == [t |-> "absent", s |-> <<>>, n |-> 0, f |-> NoneV]

JNull == [t |-> "null", s |-> <<>>, n |-> 0, f |-> NoneV]

JStr(s) == [t |-> "str", s |-> s, n |-> 0, f |-> NoneV]

JInt(n) == [t |-> "int", s |-> <<>>, n |-> n, f |-> NoneV]

JFloat(f) == [t |-> "float", s |-> <<>>, n |-> 0, f |-> f]

\* dict.get(key, default)
Get(data, key, default) == IF data[key].t = "absent" THEN default ELSE data[key]

\* The outcome of a conversion that raised.
Raise == [k |-> "raise", v |-> 0]

IntV(n) == [k |-> "int", v |-> n]

\* The fractional digits of repr(float): three, less the trailing zeros, at least one.
FracStr(m) ==
   LET d1 == m \div 100
       d2 == (m \div 10) % 10
       d3 == m % 10
   IN  IF d3 # 0 THEN NatStr(d1) \o NatStr(d2) \o NatStr(d3)
       ELSE IF d2 # 0 THEN NatStr(d1) \o NatStr(d2)
       ELSE NatStr(d1)

\* str(x) of a float.
FloatStr(x) ==
   CASE x.k = "nan" -> <<"n", "a", "n">>
     [] x.k = "inf" -> IF x.v < 0 THEN <<"-", "i", "n", "f">> ELSE <<"i", "n", "f">>
     [] OTHER ->
          LET a == IF x.v < 0 THEN -x.v ELSE x.v
          IN  (IF x.v < 0 THEN <<"-">> ELSE <<>>)
                 \o NatStr(a \div Unit) \o <<".">> \o FracStr(a % Unit)

\* str(val)
PyStr(val) ==
   CASE val.t = "str" -> val.s
     [] val.t = "int" -> IntStr(val.n)
     [] val.t = "float" -> FloatStr(val.f)
     [] val.t = "bool" -> IF val.n = 1 THEN <<"T", "r", "u", "e">> ELSE <<"F", "a", "l", "s", "e">>
     [] OTHER -> <<"N", "o", "n", "e">>

\* A run of digits in which single underscores may separate digits, as
\* int() and float() accept it.
IsDigitRun(s) ==
   /\ s # <<>>
   /\ s[1] \in DOMAIN Digit
   /\ s[Len(s)] \in DOMAIN Digit
   /\ \A i \in 1..Len(s) : s[i] \in DOMAIN Digit \/ s[i] = "_"
   /\ \A i \in 1..(Len(s) - 1) : ~(s[i] = "_" /\ s[i + 1] = "_")

IsDigitChar(c) == c \in DOMAIN Digit

DigitRunValue(s) == DigitsValue(SelectSeq(s, IsDigitChar))

HasSign(s) == s # <<>> /\ Head(s) \in {"+", "-"}

SignOf(s) == IF s # <<>> /\ Head(s) = "-" THEN -1 ELSE 1

Unsigned(s) == IF HasSign(s) THEN Tail(s) ELSE s

\* int(s) of a str: surrounding whitespace, an optional sign, decimal digits.
ParseInt(s) ==
   LET t == Strip(s)
       u == Unsigned(t)
   IN  IF IsDigitRun(u) THEN IntV(SignOf(t) * DigitRunValue(u)) ELSE Raise

\* int(x) of a float: truncation towards zero; nan and the infinities raise.
TruncFloat(x) ==
   IF x.k # "num" THEN Raise
   ELSE IF x.v < 0 THEN IntV(-((-x.v) \div Unit)) ELSE IntV(x.v \div Unit)

\* int(val)
PyInt(val) ==
   CASE val.t = "int" -> IntV(val.n)
     [] val.t = "bool" -> IntV(val.n)
     [] val.t = "float" -> TruncFloat(val.f)
     [] val.t = "str" -> ParseInt(val.s)
     [] OTHER -> Raise

\* The position of the first "." of s, or 0.
DotAt(s) == IF \E i \in 1..Len(s) : s[i] = "." THEN CHOOSE i \in 1..Len(s) : s[i] = "." /\ \A j \in 1..(i - 1) : s[j] # "." ELSE 0

\* The first three fractional digits as thousandths (the model's resolution).
FracValue(s) ==
   LET d == SelectSeq(s, IsDigitChar) \o <<"0", "0", "0">>
   IN  DigitsValue(SubSeq(d, 1, 3))

\* float(s) of a str: surrounding whitespace, an optional sign, then nan, inf,
\* infinity (in any case) or a decimal literal.  Exponents are not modelled:
\* no input of the model carries one.
ParseFloat(s) ==
   LET t == Strip(s)
       u == Unsigned(t)
       l == Lower(u)
       dot == DotAt(u)
       ip == IF dot = 0 THEN u ELSE SubSeq(u, 1, dot - 1)
       fp == IF dot = 0 THEN <<>> ELSE SubSeq(u, dot + 1, Len(u))
   IN  IF l = <<"n", "a", "n">> THEN NaN
       ELSE IF l = <<"i", "n", "f">> \/ l = <<"i", "n", "f", "i", "n", "i", "t", "y">> THEN Inf(SignOf(t))
       ELSE IF /\ (ip = <<>> \/ IsDigitRun(ip))
               /\ (fp = <<>> \/ IsDigitRun(fp))
               /\ ~(ip = <<>> /\ fp = <<>>)
            THEN Num(SignOf(t) * ((IF ip = <<>> THEN 0 ELSE DigitRunValue(ip)) * Unit
                                   + (IF fp = <<>> THEN 0 ELSE FracValue(fp))))
            ELSE Raise

\* float(val)
PyFloat(val) ==
   CASE val.t = "int" -> Num(val.n * Unit)
     [] val.t = "bool" -> Num(val.n * Unit)
     [] val.t = "float" -> val.f
     [] val.t = "str" -> ParseFloat(val.s)
     [] OTHER -> Raise

_safe_int(val, default) == IF PyInt(val) = Raise THEN default ELSE PyInt(val)

_safe_float(val, default) == IF PyFloat(val) = Raise THEN default ELSE PyFloat(val)

\* --------------------------------------------------------------- validator
Err(msg) == [err |-> msg, cleaned |-> NoneV]

NoErr == "None"

\* A validator that stores the category as it was sent.
KeepCategory(category) == category

\* if category not in CATEGORY_OPTIONS: category = "Other"
CleanCategory(category) == IF category \notin CategorySet THEN Other ELSE category

validate_book_payload(data) ==
   LET title == Strip(PyStr(Get(data, "title", JStr(<<>>))))
       author == Strip(PyStr(Get(data, "author", JStr(<<>>))))
       year == _safe_int(Get(data, "year", JNull), NoneV)
       cat0 == Strip(PyStr(Get(data, "category", JStr(Other))))
       cat1 == IF cat0 = <<>> THEN Other ELSE cat0
       rating == _safe_float(Get(data, "rating", JInt(0)), NoneV)
       price == _safe_float(Get(data, "price", JInt(0)), NoneV)
       img0 == Strip(PyStr(Get(data, "imageUrl", JStr(<<>>))))
   IN  IF title = <<>> THEN Err("Title is required.")
       ELSE IF author = <<>> THEN Err("Author is required.")
       ELSE IF year = NoneV THEN Err("Year is required (number).")
       ELSE IF year.v < 0 \/ year.v > MaxYear THEN Err("Year must be between 0 and 2100.")
       ELSE IF rating = NoneV THEN Err("Rating must be a number.")
       ELSE IF FLess(rating, Num(0)) \/ FLess(Num(MaxRating * Unit), rating) THEN Err("Rating must be 0-5.")
       ELSE IF price = NoneV THEN Err("Price must be a number.")
       ELSE IF FLess(price, Num(0)) THEN Err("Price must be >= 0.")
       ELSE [err |-> NoErr,
             cleaned |-> [title |-> title,
                          author |-> author,
                          year |-> year.v,
                          category |-> CleanCategory(cat1),
                          rating |-> rating,
                          price |-> price,
                          image_url |-> IF img0 = <<>> THEN PLACEHOLDER_IMG ELSE img0]]

\* ------------------------------------------------------------------ store
\* The table "books": a function from the primary keys in use to the rows.
\* A row holds id, title, author, year, category, rating, price, image_url
\* and created_at (the clock value at its INSERT).
Book(id, c, t) ==
   [id |-> id,
    title |-> c.title,
    author |-> c.author,
    year |-> c.year,
    category |-> c.category,
    rating |-> c.rating,
    price |-> c.price,
    image_url |-> c.image_url,
    created_at |-> t]

\* INSERT of rows under new keys: the rows of news, a function on new keys.
Insert(store, news) ==
   [id \in DOMAIN store \cup DOMAIN news |-> IF id \in DOMAIN news THEN news[id] ELSE store[id]]

\* DELETE of the row with key id.
Remove(store, id) == [i \in DOMAIN store \ {id} |-> store[i]]

\* A key taken as the largest key in use plus one: the key of a deleted last
\* row is handed out again.
MaxIdPlusOne(store, next) ==
   IF DOMAIN store = {} THEN 1 ELSE (CHOOSE i \in DOMAIN store : \A j \in DOMAIN store : j <= i) + 1

\* The key an INSERT gets: the next value of the sequence books_id_seq,
\* which PostgreSQL never hands out twice.
NewId(store, next) == next

Count(store) == Cardinality(DOMAIN store)

\* book_to_dict
book_to_dict(b) ==
   [id |-> b.id,
    title |-> b.title,
    author |-> b.author,
    year |-> b.year,
    category |-> b.category,
    rating |-> Round2(b.rating),
    price |-> Round2(b.price),
    imageUrl |-> b.image_url,
    createdAt |-> IntStr(b.created_at)]

\* ----------------------------------------------------------------- seeder
PlaceholdText ==
   <<"h", "t", "t", "p", "s", ":", "/", "/", "p", "l", "a", "c", "e", "h", "o", "l", "d", ".",
     "c", "o", "/", "1", "6", "0", "x", "2", "2", "0", "?", "t", "e", "x", "t", "=">>

\* The rows of books.json beside app.py; the repository holds no such file.
books_json == <<>>

\* seed_rows of seed_if_needed: the file's rows, or the two fallback rows.
seed_rows ==
   IF books_json # <<>> THEN books_json
   ELSE << [title |-> <<"T", "h", "e", " ", "H", "o", "b", "b", "i", "t">>,
            author |-> <<"J", ".", "R", ".", "R", ".", " ", "T", "o", "l", "k", "i", "e", "n">>,
            year |-> 1937],
           [title |-> <<"1", "9", "8", "4">>,
            author |-> <<"G", "e", "o", "r", "g", "e", " ", "O", "r", "w", "e", "l", "l">>,
            year |-> 1949] >>

\* The Book the first loop of seed_if_needed builds from row i.
SeedRowBook(id, i, row, t) ==
   [id |-> id,
    title |-> row.title,
    author |-> row.author,
    year |-> row.year,
    category |-> CATEGORY_OPTIONS[(i % Len(CATEGORY_OPTIONS)) + 1],
    rating |-> Num(((i * 37) % 50) * (Unit \div 10)),
    price |-> Num(5 * Unit + ((i * 19) % 300) * (Unit \div 10)),
    image_url |-> PlaceholdText \o <<"B", "o", "o", "k", "+">> \o NatStr(i),
    created_at |-> t]

\* The Book the top-up loop of seed_if_needed builds when the table holds i - 1 rows.
TopUpBook(id, i, t) ==
   [id |-> id,
    title |-> <<"S", "e", "e", "d", " ", "B", "o", "o", "k", " ">> \o NatStr(i),
    author |-> <<"S", "e", "e", "d", " ", "A", "u", "t", "h", "o", "r">>,
    year |-> 2000 + (i % 20),
    category |-> Other,
    rating |-> Num(3 * Unit + Unit \div 2),
    price |-> Num(10 * Unit - Unit \div 100),
    image_url |-> PlaceholdText \o <<"S", "e", "e", "d", "+">> \o NatStr(i),
    created_at |-> t]

\* seed_if_needed: nothing when the table holds SeedTarget rows; otherwise
\* every seed row is inserted, then rows are added until it holds SeedTarget.
\* The result is the table and the next value of the id sequence.
seed_if_needed(store, next, t) ==
   LET count == Count(store)
       n == Len(seed_rows)
       count2 == count + n
       m == IF count2 < SeedTarget THEN SeedTarget - count2 ELSE 0
       first == NewId(store, next)
       news == [id \in first..(first + n + m - 1) |->
                  IF id < first + n
                  THEN SeedRowBook(id, id - first + 1, seed_rows[id - first + 1], t)
                  ELSE TopUpBook(id, count2 + (id - first - n) + 1, t)]
   IN  IF count >= SeedTarget THEN [books |-> store, nextId |-> next]
       ELSE [books |-> Insert(store, news), nextId |-> first + n + m]

\* ---------------------------------------------------------------- sessions
\* What a handler's body hands back: how it left ("return" or "raise"), the
\* response, the table and the id sequence, and the session's events.
Outcome(exit, resp, store, next) ==
   [exit |-> exit, resp |-> resp, books |-> store, nextId |-> next, trace |-> <<>>]

\* A handler that closes its session at the end of the try block instead of
\* in a finally clause: an exception leaves the session open.
CloseOnReturn(r) == IF r.exit = "return" THEN [r EXCEPT !.trace = @ \o <<"close">>] ELSE r

\* The finally clause of a handler: db.close(), however the body left.
Finally(r) == [r EXCEPT !.trace = @ \o <<"close">>]

\* db = SessionLocal(); try: body; finally: db.close()
WithSession(r) == Finally([r EXCEPT !.trace = <<"open">> \o @])

\* The sessions still open after events trace, open of them before.
RECURSIVE OpenAfter(_, _)
OpenAfter(open, trace) ==
   IF trace = <<>> THEN open
   ELSE OpenAfter(IF Head(trace) = "open" THEN open + 1 ELSE open - 1, Tail(trace))

\* An exception that leaves a handler: Flask answers 500.
ServerError == [status |-> 500, kind |-> "error", body |-> "Internal Server Error"]

ErrorBody(status, msg) == [status |-> status, kind |-> "error", body |-> msg]

\* ----------------------------------------------------------------- listing
\* s ILIKE p is LikeFrom(p, s, 1, 1) for a pattern p in lower case, without
\* the escape character (no input of the model carries a backslash): %
\* matches any run, _ any one character, any other character itself,
\* whatever its case.  LikeFrom matches p from i on against s from j on.
RECURSIVE LikeFrom(_, _, _, _)
LikeFrom(p, s, i, j) ==
   IF i > Len(p) THEN j > Len(s)
   ELSE IF p[i] = "%" THEN LikeFrom(p, s, i + 1, j) \/ (j <= Len(s) /\ LikeFrom(p, s, i, j + 1))
   ELSE IF j > Len(s) THEN FALSE
   ELSE (p[i] = "_" \/ p[i] = LowerChar[s[j]]) /\ LikeFrom(p, s, i + 1, j + 1)

\* like = f"%{q}%", in lower case
LikePattern(q) == Lower(<<"%">> \o q \o <<"%">>)

\* The WHERE clause of get_books, like being LikePattern(q).
Matches(b, q, like, category) ==
   /\ q # <<>> => LikeFrom(like, b.title, 1, 1) \/ LikeFrom(like, b.author, 1, 1)
   /\ category # <<>> => b.category = category

\* The order of PostgreSQL on double precision: -Infinity, the numbers,
\* Infinity, NaN.
PgFloatRank(x) ==
   CASE x.k = "nan" -> 3
     [] x.k = "inf" -> IF x.v < 0 THEN 0 ELSE 2
     [] OTHER -> 1

PgFloatLess(a, b) ==
   \/ PgFloatRank(a) < PgFloatRank(b)
   \/ PgFloatRank(a) = 1 /\ PgFloatRank(b) = 1 /\ a.v < b.v

\* getattr(Book, sort_by): the column of a name of ALLOWED_SORT_FIELDS.
ColumnOf(sort_by) ==
   CASE sort_by = <<"t", "i", "t", "l", "e">> -> "title"
     [] sort_by = <<"a", "u", "t", "h", "o", "r">> -> "author"
     [] sort_by = <<"y", "e", "a", "r">> -> "year"
     [] sort_by = <<"r", "a", "t", "i", "n", "g">> -> "rating"
     [] sort_by = <<"p", "r", "i", "c", "e">> -> "price"
     [] OTHER -> "created_at"

\* Whether row a sorts before row b on column col, ascending.
KeyLess(a, b, col) ==
   CASE col \in {"title", "author"} -> StrLess(a[col], b[col])
     [] col \in {"rating", "price"} -> PgFloatLess(a[col], b[col])
     [] OTHER -> a[col] < b[col]

\* ORDER BY col ASC (asc) or DESC.  It leaves the order of rows with equal
\* keys to the database; tie names the order it takes: by id upwards ("up")
\* or downwards ("down").
RowBefore(a, b, col, asc, tie) ==
   IF a[col] = b[col] THEN (IF tie = "up" THEN a.id < b.id ELSE a.id > b.id)
   ELSE IF asc THEN KeyLess(a, b, col) ELSE KeyLess(b, a, col)

\* The filtered rows in the order of ORDER BY; the scan reads the rows under
\* the ids the sequence has handed out, those below next.
Ordered(store, next, q, like, category, col, asc, tie) ==
   LET Keep(i) == i \in DOMAIN store /\ Matches(store[i], q, like, category)
       ids == SelectSeq([i \in 1..(next - 1) |-> i], Keep)
       rows == [k \in 1..Len(ids) |-> store[ids[k]]]
       Before(a, b) == RowBefore(a, b, col, asc, tie)
   IN  SortSeq(rows, Before)

\* A query without its LIMIT.
OffsetOnly(rows, offset, limit) == SubSeq(rows, offset + 1, Len(rows))

\* OFFSET offset LIMIT limit
OffsetLimit(rows, offset, limit) ==
   SubSeq(rows, offset + 1, IF offset + limit < Len(rows) THEN offset + limit ELSE Len(rows))

\* math.ceil(a / b) for a >= 0, b > 0
Ceil(a, b) == (a + b - 1) \div b

\* The page get_books reads: the page parameter, 1 when it is below 1.
ResolvedPage(args) ==
   LET page == _safe_int(Get(args, "page", JInt(DefaultPage)), IntV(DefaultPage)).v
   IN  IF page < 1 THEN 1 ELSE page

ResolvedPageSize(args) ==
   LET page_size == _safe_int(Get(args, "pageSize", JInt(DefaultPageSize)), IntV(DefaultPageSize)).v
   IN  IF page_size \notin ALLOWED_PAGE_SIZES THEN DefaultPageSize ELSE page_size

ResolvedSortBy(args) ==
   LET sort_by == Strip(PyStr(Get(args, "sortBy", JStr(<<"c", "r", "e", "a", "t", "e", "d", "_", "a", "t">>))))
   IN  IF sort_by \notin ALLOWED_SORT_FIELDS THEN <<"c", "r", "e", "a", "t", "e", "d", "_", "a", "t">> ELSE sort_by

ResolvedSortDir(args) ==
   LET sort_dir == Lower(Strip(PyStr(Get(args, "sortDir", JStr(<<"d", "e", "s", "c">>)))))
   IN  IF sort_dir \notin {<<"a", "s", "c">>, <<"d", "e", "s", "c">>} THEN <<"d", "e", "s", "c">> ELSE sort_dir

\* The offset of the query of get_books.
QueryOffset(page, page_size, total) == (page - 1) * page_size

\* A listing that reports the page it was asked for.
RequestedPage(page, total_pages, total) == page

\* The page get_books reports.
ReportedPage(page, total_pages, total) ==
   IF page > total_pages /\ total > 0 THEN total_pages ELSE page

\* A listing that counts the rows of the page it read.
PageCount(rows, items) == Len(items)

\* The total get_books reports: the count of the filtered query.
TotalOf(rows, items) == Len(rows)

\* The JSON of get_books, from the ordered rows of the filtered query.
ListResponse(rows, page, page_size) ==
   LET items == OffsetLimit(rows, QueryOffset(page, page_size, Len(rows)), page_size)
       total == TotalOf(rows, items)
       total_pages == IF total # 0 THEN (IF Ceil(total, page_size) > 1 THEN Ceil(total, page_size) ELSE 1) ELSE 1
   IN  [status |-> 200,
        kind |-> "list",
        items |-> [k \in 1..Len(items) |-> book_to_dict(items[k])],
        total |-> total,
        page |-> ReportedPage(page, total_pages, total),
        pageSize |-> page_size,
        totalPages |-> total_pages]

\* The body of get_books inside its try; fail names the statement that raises.
get_books_body(store, next, args, tie, fail) ==
   LET q == Strip(PyStr(Get(args, "q", JStr(<<>>))))
       category == Strip(PyStr(Get(args, "category", JStr(<<>>))))
   IN  IF fail = "query" THEN Outcome("raise", ServerError, store, next)
       ELSE Outcome("return",
                    ListResponse(Ordered(store, next, q, LikePattern(q), category, ColumnOf(ResolvedSortBy(args)),
                                         ResolvedSortDir(args) = <<"a", "s", "c">>, tie),
                                 ResolvedPage(args), ResolvedPageSize(args)),
                    store, next)

get_books(store, next, args, tie, fail) == WithSession(get_books_body(store, next, args, tie, fail))

\* ------------------------------------------------------------------ create
create_book_body(store, next, t, cleaned, fail) ==
   LET id == NewId(store, next)
       b == Book(id, cleaned, t)
       after == Insert(store, (id :> b))
   IN  IF fail = "commit" THEN Outcome("raise", ServerError, store, id + 1)
       ELSE IF fail = "refresh" THEN Outcome("raise", ServerError, after, id + 1)
       ELSE Outcome("return", [status |-> 201, kind |-> "book", body |-> book_to_dict(b)], after, id + 1)

create_book(store, next, t, data, fail) ==
   LET v == validate_book_payload(data)
   IN  IF v.err # NoErr THEN Outcome("return", ErrorBody(400, v.err), store, next)
       ELSE WithSession(create_book_body(store, next, t, v.cleaned, fail))

\* ------------------------------------------------------------------ update
\* A column created_at that is also stamped on UPDATE (onupdate=).
SetAttrsStamped(b, cleaned) == Book(b.id, cleaned, b.created_at + 1)

\* for k, v in cleaned.items(): setattr(b, k, v)
SetAttrs(b, cleaned) == Book(b.id, cleaned, b.created_at)

update_book_body(store, next, book_id, cleaned, fail) ==
   LET after == [store EXCEPT ![book_id] = SetAttrs(store[book_id], cleaned)]
   IN  IF fail = "query" THEN Outcome("raise", ServerError, store, next)
       ELSE IF book_id \notin DOMAIN store THEN Outcome("return", ErrorBody(404, "Book not found."), store, next)
       ELSE IF fail = "commit" THEN Outcome("raise", ServerError, store, next)
       ELSE IF fail = "refresh" THEN Outcome("raise", ServerError, after, next)
       ELSE Outcome("return", [status |-> 200, kind |-> "book", body |-> book_to_dict(after[book_id])], after, next)

\* A PUT that looks the row up before it validates the body.
update_lookup_first(store, next, book_id, data, fail) ==
   LET v == validate_book_payload(data)
   IN  IF fail # "query" /\ book_id \notin DOMAIN store
       THEN WithSession(Outcome("return", ErrorBody(404, "Book not found."), store, next))
       ELSE IF v.err # NoErr THEN Outcome("return", ErrorBody(400, v.err), store, next)
       ELSE WithSession(update_book_body(store, next, book_id, v.cleaned, fail))

update_book(store, next, book_id, data, fail) ==
   LET v == validate_book_payload(data)
   IN  IF v.err # NoErr THEN Outcome("return", ErrorBody(400, v.err), store, next)
       ELSE WithSession(update_book_body(store, next, book_id, v.cleaned, fail))

\* ------------------------------------------------------------------ delete
delete_book_body(store, next, book_id, fail) ==
   IF fail = "query" THEN Outcome("raise", ServerError, store, next)
   ELSE IF book_id \notin DOMAIN store THEN Outcome("return", ErrorBody(404, "Book not found."), store, next)
   ELSE IF fail = "commit" THEN Outcome("raise", ServerError, store, next)
   ELSE Outcome("return", [status |-> 200, kind |-> "ok", body |-> "ok"], Remove(store, book_id), next)

delete_book(store, next, book_id, fail) == WithSession(delete_book_body(store, next, book_id, fail))

\* ------------------------------------------------------------------- stats
\* SUM(year) over the rows with ids up to n.
RECURSIVE SumYears(_, _)
SumYears(store, n) ==
   IF n = 0 THEN 0
   ELSE (IF n \in DOMAIN store THEN store[n].year ELSE 0) + SumYears(store, n - 1)

\* SUM(col) of a float column over the rows with ids up to n.
RECURSIVE SumFloat(_, _, _)
SumFloat(store, n, col) ==
   IF n = 0 THEN Num(0)
   ELSE IF n \in DOMAIN store THEN FAdd(store[n][col], SumFloat(store, n - 1, col))
   ELSE SumFloat(store, n - 1, col)

\* round(float(avg), 2) of the average of a float column over count > 0 rows.
RoundedAvg(sum, count) == IF sum.k = "num" THEN Num(10 * RoundDiv(sum.v, 10 * count)) ELSE sum

stats_body(store, next, args, fail) ==
   LET page_size == ResolvedPageSize(args)
       total == Count(store)
       cats == {store[i].category : i \in DOMAIN store}
   IN  IF fail = "query" THEN Outcome("raise", ServerError, store, next)
       ELSE Outcome("return",
                    [status |-> 200,
                     kind |-> "stats",
                     total |-> total,
                     pageSize |-> page_size,
                     averagePublicationYear |-> IF total # 0 THEN RoundDiv(SumYears(store, next - 1), total) ELSE 0,
                     averageRating |-> IF total # 0 THEN RoundedAvg(SumFloat(store, next - 1, "rating"), total) ELSE Num(0),
                     totalValue |-> Round2(SumFloat(store, next - 1, "price")),
                     countByCategory |-> [c \in cats |-> Cardinality({i \in DOMAIN store : store[i].category = c})]],
                    store, next)

stats(store, next, args, fail) == WithSession(stats_body(store, next, args, fail))

\* ------------------------------------------------------------------ inputs
Payload(title, author, year, category, rating, price, imageUrl) ==
   [title |-> title, author |-> author, year |-> year, category |-> category,
    rating |-> rating, price |-> price, imageUrl |-> imageUrl]

\* The bodies of the POST and PUT requests the model sends: the boundary
\* values that pass; a category outside the set with numbers given as text;
\* no category, no price, a blank image and a rating that is not a number;
\* a year and a rating just outside their ranges.
Payloads ==
   { Payload(JStr(<<" ", "D", "u", "n", "e", " ">>), JStr(<<"F", "H">>), JInt(2100),
             JStr(<<"S", "c", "i", "-", "F", "i">>), JFloat(Num(5 * Unit)), JInt(0), Absent),
     Payload(JStr(<<"N">>), JInt(7), JStr(<<"1", "9", "9", "9">>),
             JStr(<<"N", "o", "n", "e", "x", "i", "s", "t", "e", "n", "t">>),
             JStr(<<"4", ".", "0", "0", "4">>), JFloat(Num(10 * Unit - 10)), JStr(<<" ", "u", " ">>)),
     Payload(JStr(<<"Q">>), JStr(<<"a">>), JInt(0), Absent, JStr(<<"n", "a", "n">>), Absent, JStr(<<" ">>)),
     Payload(JStr(<<"T">>), JStr(<<"a">>), JInt(2101), Absent, Absent, Absent, Absent),
     Payload(JStr(<<"T">>), JStr(<<"a">>), JInt(2000), Absent, JFloat(Num(5 * Unit + 10)), JFloat(Num(-10)), Absent) }

\* The ids of the PUT and DELETE requests: the last row the seeder inserts
\* into an empty table, and the row inserted next (no row at first).
TargetIds == {SeedTarget, SeedTarget + 1}

ListArgs(page, pageSize, q, category, sortBy, sortDir) ==
   [page |-> page, pageSize |-> pageSize, q |-> q, category |-> category,
    sortBy |-> sortBy, sortDir |-> sortDir]

\* The query strings of the GET /api/books requests of Spec: everything on
\* one page, and a page beyond the last of one category.
Listings ==
   { ListArgs(Absent, JStr(<<"5", "0">>), Absent, Absent, Absent, Absent),
     ListArgs(JStr(<<"2">>), JStr(<<"5">>), Absent, JStr(<<"S", "c", "i", "-", "F", "i">>), JStr(<<"y", "e", "a", "r">>), JStr(<<"A", "S", "C">>)) }

\* The query strings of the GET /api/books requests of SpecL: every
\* combination of a page (absent, below 1, inside, beyond the last, not a
\* number), a page size (allowed, allowed with a blank, not allowed), a text
\* filter (absent, one match at most, with a wildcard, no match), a category
\* filter and an order.
Pages == {Absent, JStr(<<"0">>), JStr(<<"2">>), JStr(<<"4">>), JStr(<<"x">>)}

PageSizes == {JStr(<<"5">>), JStr(<<" ", "2", "0">>), JStr(<<"7">>)}

Queries == {Absent, JStr(<<" ", "D", "U", "N", "E">>), JStr(<<"_", "e", "l">>), JStr(<<"z", "z", "z">>)}

Categories == {Absent, JStr(<<"O", "t", "h", "e", "r", " ">>)}

Orders ==
   { <<Absent, Absent>>,
     <<JStr(<<"t", "i", "t", "l", "e">>), JStr(<<" ", "A", "S", "C">>)>>,
     <<JStr(<<"y", "e", "a", "r">>), JStr(<<"d", "e", "s", "c">>)>>,
     <<JStr(<<"b", "o", "g", "u", "s">>), JStr(<<"u", "p">>)>> }

ListingsWide ==
   { ListArgs(p, s, q, c, o[1], o[2]) : p \in Pages, s \in PageSizes, q \in Queries, c \in Categories, o \in Orders }

\* The query strings of the GET /api/stats requests the model sends.
StatsArgs ==
   { ListArgs(Absent, JStr(<<"5", "0">>), Absent, Absent, Absent, Absent),
     ListArgs(Absent, JStr(<<"7">>), Absent, Absent, Absent, Absent) }

NoArgs == ListArgs(Absent, Absent, Absent, Absent, Absent, Absent)

NoData == Payload(Absent, Absent, Absent, Absent, Absent, Absent, Absent)

\* ------------------------------------------------------------------- state
VARIABLES
   books,         \* the table books: id -> row
   nextId,        \* the next value of the id sequence
   now,           \* the wall clock (datetime.utcnow)
   req,           \* the request handled last
   resp,          \* its response
   openSessions,  \* the sessions opened and not closed
   sessionLog,    \* the session events of the request handled last
   deleted,       \* history: the ids whose DELETE was answered 200
   validated,     \* history: the ids of the rows last written by a POST or PUT
   used           \* the budget spent: creates, updates, deletes, restarts

vars == <<books, nextId, now, req, resp, openSessions, sessionLog, deleted, validated, used>>

\* A request: its handler, the id of its path, its JSON body, its query string.
Request(op, id, data, args) == [op |-> op, id |-> id, data |-> data, args |-> args]

NoResp == [status |-> 0, kind |-> "none", body |-> "none"]

\* The process has started: seed_if_needed has run against an empty database.
Init ==
   /\ books = seed_if_needed(<<>>, 1, 0).books
   /\ nextId = seed_if_needed(<<>>, 1, 0).nextId
   /\ now = 0
   /\ req = Request("none", 0, NoData, NoArgs)
   /\ resp = NoResp
   /\ openSessions = 0
   /\ sessionLog = <<>>
   /\ deleted = {}
   /\ validated = {}
   /\ used = [creates |-> 0, updates |-> 0, deletes |-> 0, restarts |-> 0]

\* No request is being handled: the last response has been sent.
Idle == resp = NoResp

\* What every handler leaves behind.
Handled(r, request) ==
   /\ books' = r.books
   /\ nextId' = r.nextId
   /\ req' = request
   /\ resp' = r.resp
   /\ sessionLog' = r.trace
   /\ openSessions' = OpenAfter(openSessions, r.trace)

\* The response is sent; the service waits for the next request.
Deliver ==
   /\ ~Idle
   /\ req' = Request("none", 0, NoData, NoArgs)
   /\ resp' = NoResp
   /\ sessionLog' = <<>>
   /\ UNCHANGED <<books, nextId, now, openSessions, deleted, validated, used>>

\* The clock advances between two requests.
Tick ==
   /\ Idle
   /\ now < MaxClock
   /\ now' = now + 1
   /\ UNCHANGED <<books, nextId, req, resp, openSessions, sessionLog, deleted, validated, used>>

\* GET /api/books with a query string of argsSet
ListWith(argsSet) ==
   /\ Idle
   /\ \E args \in argsSet, tie \in {"up", "down"}, fail \in {"none", "query"} :
         \E r \in {get_books(books, nextId, args, tie, fail)} :
            /\ Handled(r, Request("list", 0, NoData, args))
            /\ UNCHANGED <<now, deleted, validated, used>>

\* POST /api/books with a body of dataSet
CreateWith(dataSet, fails) ==
   /\ Idle
   /\ \E data \in dataSet, fail \in fails :
         \E r \in {create_book(books, nextId, now, data, fail)} :
            /\ r.nextId # nextId => used.creates < MaxCreates
            /\ Handled(r, Request("create", 0, data, NoArgs))
            /\ validated' = validated \cup (DOMAIN r.books \ DOMAIN books)
            /\ used' = [used EXCEPT !.creates = IF r.nextId # nextId THEN @ + 1 ELSE @]
            /\ UNCHANGED <<now, deleted>>

\* DELETE /api/books/<book_id> with an id of ids
DeleteWith(ids, fails) ==
   /\ Idle
   /\ \E book_id \in ids, fail \in fails :
         \E r \in {delete_book(books, nextId, book_id, fail)} :
            /\ r.books # books => used.deletes < MaxDeletes
            /\ Handled(r, Request("delete", book_id, NoData, NoArgs))
            /\ deleted' = IF r.books # books THEN deleted \cup {book_id} ELSE deleted
            /\ validated' = IF r.books # books THEN validated \ {book_id} ELSE validated
            /\ used' = [used EXCEPT !.deletes = IF r.books # books THEN @ + 1 ELSE @]
            /\ UNCHANGED now

GetBooks == ListWith(Listings)

CreateBook == CreateWith(Payloads, {"none", "commit", "refresh"})

DeleteBook == DeleteWith(TargetIds, {"none", "query", "commit"})

\* PUT /api/books/<book_id>
UpdateBook ==
   /\ Idle
   /\ \E book_id \in TargetIds, data \in Payloads, fail \in {"none", "query", "commit", "refresh"} :
         \E r \in {update_book(books, nextId, book_id, data, fail)} :
            /\ r.books # books => used.updates < MaxUpdates
            /\ Handled(r, Request("update", book_id, data, NoArgs))
            /\ validated' = IF r.books # books THEN validated \cup {book_id} ELSE validated
            /\ used' = [used EXCEPT !.updates = IF r.books # books THEN @ + 1 ELSE @]
            /\ UNCHANGED <<now, deleted>>

\* GET /api/stats
Stats ==
   /\ Idle
   /\ \E args \in StatsArgs, fail \in {"none", "query"} :
      \E r \in {stats(books, nextId, args, fail)} :
         /\ Handled(r, Request("stats", 0, NoData, args))
         /\ UNCHANGED <<now, deleted, validated, used>>

\* The process is started again: seed_if_needed runs against the table as it is.
Restart ==
   /\ Idle
   /\ \E r \in {seed_if_needed(books, nextId, now)} :
         /\ r.books # books => used.restarts < MaxRestarts
         /\ books' = r.books
         /\ nextId' = r.nextId
         /\ req' = Request("none", 0, NoData, NoArgs)
         /\ resp' = NoResp
         /\ sessionLog' = <<>>
         /\ used' = [used EXCEPT !.restarts = IF r.books # books THEN @ + 1 ELSE @]
         /\ UNCHANGED <<now, openSessions, deleted, validated>>

Next == Deliver \/ Tick \/ GetBooks \/ CreateBook \/ UpdateBook \/ DeleteBook \/ Stats \/ Restart

\* The service under every request: the five handlers, restarts, the clock.
Spec == Init /\ [][Next]_vars

\* The listing under many query strings, over the tables that a POST of the
\* first payload and the DELETEs leave.
GetBooksWide == ListWith(ListingsWide)

AddBook == CreateWith({Payload(JStr(<<" ", "D", "u", "n", "e", " ">>), JStr(<<"F", "H">>), JInt(2100), JStr(<<"S", "c", "i", "-", "F", "i">>), JFloat(Num(5 * Unit)), JInt(0), Absent)}, {"none"})

DropBook == DeleteWith(TargetIds, {"none"})

NextL == Deliver \/ GetBooksWide \/ AddBook \/ DropBook

SpecL == Init /\ [][NextL]_vars

\* ------------------------------------------------------------------ claims
\* The filters of a listing request, as get_books reads them.
FilterQ(args) == Strip(PyStr(Get(args, "q", JStr(<<>>))))

FilterCategory(args) == Strip(PyStr(Get(args, "category", JStr(<<>>))))

\* The ids of the stored rows that pass the filters of args.
MatchingIds(q, like, category) == {i \in DOMAIN books : Matches(books[i], q, like, category)}

Matching(args) == MatchingIds(FilterQ(args), LikePattern(FilterQ(args)), FilterCategory(args))

\* The stored rows that pass the filters of args, in the order args asks for.
SortedMatching(args, tie) ==
   Ordered(books, nextId, FilterQ(args), LikePattern(FilterQ(args)), FilterCategory(args),
           ColumnOf(ResolvedSortBy(args)), ResolvedSortDir(args) = <<"a", "s", "c">>, tie)

\* The JSON of the rows at positions first + 1 .. Len(rows).
JsonFrom(rows, first) == [k \in 1..(Len(rows) - first) |-> book_to_dict(rows[first + k])]

\* C1: a listing request whose page is greater than totalPages, with
\* total > 0, returns the items of the last page (positions
\* (totalPages - 1) * pageSize .. total - 1 of the sorted, filtered rows) and
\* reports page = totalPages.
C1_ClampReturnsLastPage ==
   (resp.kind = "list" /\ resp.total > 0 /\ ResolvedPage(req.args) > resp.totalPages) =>
      /\ resp.page = resp.totalPages
      /\ \E tie \in {"up", "down"} :
            resp.items = JsonFrom(SortedMatching(req.args, tie), (resp.totalPages - 1) * resp.pageSize)

\* C2: every listing response has at most pageSize items, pageSize being the
\* resolved value in {5, 10, 20, 50}, and its total is the number of stored
\* rows that match the q and category filters, whatever page and pageSize are.
C2_ItemsAndTotal ==
   resp.kind = "list" =>
      /\ resp.pageSize = ResolvedPageSize(req.args)
      /\ resp.pageSize \in {5, 10, 20, 50}
      /\ Len(resp.items) <= resp.pageSize
      /\ resp.total = Cardinality(Matching(req.args))

\* A filtered listing of a full page with more matching rows than the page holds.
C2_Witness ==
   /\ resp.kind = "list"
   /\ req.args.category # Absent
   /\ Len(resp.items) = resp.pageSize
   /\ resp.total > resp.pageSize
   /\ resp.total < Count(books)

\* C3 as stated: once DELETE on id x has succeeded, every later PUT on x and
\* DELETE on x returns 404 (unless the database fails), and no listing
\* response holds a row with id x.
C3_DeletedAlwaysNotFound ==
   [][\A x \in deleted :
         /\ (req'.op \in {"update", "delete"} /\ req'.id = x /\ resp'.status # 500) => resp'.status = 404
         /\ resp'.kind = "list" => \A k \in 1..Len(resp'.items) : resp'.items[k].id # x]_vars

\* C3, amended: once DELETE on id x has succeeded, x is never a key of the
\* table again; every later DELETE on x returns 404, every later PUT on x
\* returns 400 when its body fails validation and 404 when it passes (500
\* when the database fails), and no listing response holds a row with id x.
C3_DeletedStaysGone ==
   [][\A x \in deleted :
         /\ x \notin DOMAIN books'
         /\ (req'.op = "delete" /\ req'.id = x) => resp'.status \in {404, 500}
         /\ (req'.op = "update" /\ req'.id = x) =>
               IF validate_book_payload(req'.data).err # NoErr THEN resp'.status = 400
               ELSE resp'.status \in {404, 500}
         /\ resp'.kind = "list" => \A k \in 1..Len(resp'.items) : resp'.items[k].id # x]_vars

\* A PUT with a valid body on a deleted id, answered 404.
C3_Witness ==
   /\ req.op = "update"
   /\ req.id \in deleted
   /\ validate_book_payload(req.data).err = NoErr
   /\ resp.status = 404

\* Whether the numbers of a row are within their bounds.
InBounds(b) ==
   /\ 0 <= b.year /\ b.year <= MaxYear
   /\ b.rating.k = "num" /\ 0 <= b.rating.v /\ b.rating.v <= MaxRating * Unit
   /\ \/ b.price.k = "num" /\ 0 <= b.price.v
      \/ b.price.k = "inf" /\ 0 < b.price.v

\* C4: every row written through validate_book_payload has 0 <= year <= 2100,
\* 0 <= rating <= 5 and price >= 0; year 2100, rating 5 and price 0 are
\* accepted; year 2101, a rating above 5 and a price below 0 are answered 400
\* with an error message.
C4_NumericBounds ==
   /\ \A id \in validated \cap DOMAIN books : InBounds(books[id])
   /\ req.op \in {"create", "update"} =>
         /\ (req.data.year = JInt(MaxYear) /\ req.data.rating = JFloat(Num(MaxRating * Unit)) /\ req.data.price = JInt(0))
               => resp.status # 400
         /\ ( \/ req.data.year = JInt(MaxYear + 1)
              \/ req.data.rating = JFloat(Num(MaxRating * Unit + 10))
              \/ req.data.price = JFloat(Num(-10)) )
               => resp.status = 400 /\ resp.kind = "error" /\ resp.body # ""

\* The category a request body carries, as text.
SentCategory(data) == Strip(PyStr(Get(data, "category", JStr(<<>>))))

\* C5: the category of every stored row is a member of CATEGORY_OPTIONS; a
\* create or update whose category is absent, empty or outside the set is not
\* rejected for it and stores the category "Other".
C5_CategoryInSet ==
   /\ \A id \in DOMAIN books : books[id].category \in CategorySet
   /\ (req.op \in {"create", "update"} /\ SentCategory(req.data) \notin CategorySet) =>
         /\ validate_book_payload([req.data EXCEPT !.category = JStr(Other)]).err = NoErr => resp.status # 400
         /\ resp.status \in {200, 201} =>
               /\ resp.body.category = Other
               /\ books[resp.body.id].category = Other

\* A POST with the category "Nonexistent", stored as "Other".
C5_Witness ==
   /\ req.op = "create"
   /\ req.data.category = JStr(<<"N", "o", "n", "e", "x", "i", "s", "t", "e", "n", "t">>)
   /\ resp.status = 201
   /\ books[resp.body.id].category = Other

\* The error of the first rule a request body fails, in the order title
\* present, author present, year present and numeric, year in range, rating
\* numeric, rating in range, price numeric, price in range; NoErr when it
\* passes them all.  A range holds of a number within it.
FirstFailingRule(data) ==
   LET title == Strip(PyStr(Get(data, "title", JStr(<<>>))))
       author == Strip(PyStr(Get(data, "author", JStr(<<>>))))
       year == _safe_int(Get(data, "year", JNull), NoneV)
       rating == _safe_float(Get(data, "rating", JInt(0)), NoneV)
       price == _safe_float(Get(data, "price", JInt(0)), NoneV)
   IN  IF title = <<>> THEN "Title is required."
       ELSE IF author = <<>> THEN "Author is required."
       ELSE IF year = NoneV THEN "Year is required (number)."
       ELSE IF ~(0 <= year.v /\ year.v <= MaxYear) THEN "Year must be between 0 and 2100."
       ELSE IF rating = NoneV THEN "Rating must be a number."
       ELSE IF ~(rating.k = "num" /\ 0 <= rating.v /\ rating.v <= MaxRating * Unit) THEN "Rating must be 0-5."
       ELSE IF price = NoneV THEN "Price must be a number."
       ELSE IF ~((price.k = "num" /\ 0 <= price.v) \/ (price.k = "inf" /\ 0 < price.v)) THEN "Price must be >= 0."
       ELSE NoErr

\* C6: validate_book_payload returns the error of the first failing rule, and
\* a cleaned record and no error exactly when no rule fails.
C6_FirstFailingRuleWins ==
   req.op \in {"create", "update"} =>
      /\ validate_book_payload(req.data).err = FirstFailingRule(req.data)
      /\ validate_book_payload(req.data).cleaned # NoneV <=> FirstFailingRule(req.data) = NoErr
      /\ FirstFailingRule(req.data) # NoErr => resp.status = 400 /\ resp.body = FirstFailingRule(req.data)

\* C7: a PUT answered 200 replaces title, author, year, category, rating,
\* price and image_url of its row by the cleaned values of its body, keeps the
\* row's id and created_at, and leaves every other row as it was; no step
\* changes the created_at of a row that stays in the table.
C7_UpdateFrame ==
   [][/\ (req'.op = "update" /\ resp'.status = 200) =>
            LET id == req'.id
                c == validate_book_payload(req'.data).cleaned
            IN  /\ id \in DOMAIN books
                /\ DOMAIN books' = DOMAIN books
                /\ books'[id] = [id |-> books[id].id, title |-> c.title, author |-> c.author,
                                 year |-> c.year, category |-> c.category, rating |-> c.rating,
                                 price |-> c.price, image_url |-> c.image_url,
                                 created_at |-> books[id].created_at]
                /\ \A j \in DOMAIN books \ {id} : books'[j] = books[j]
                /\ resp'.body = book_to_dict(books'[id])
      /\ \A j \in DOMAIN books \cap DOMAIN books' : books'[j].created_at = books[j].created_at]_vars

\* A PUT answered 200 on a row inserted before the clock's present value,
\* with another title than the row had at its insert.
C7_Witness ==
   /\ req.op = "update"
   /\ resp.status = 200
   /\ books[req.id].created_at < now
   /\ books[req.id].title = <<"N">>
   /\ resp.body.createdAt = IntStr(books[req.id].created_at)

\* C8: every session a request opens is closed when the request ends, on
\* every exit path: no session stays open, and every request that reached the
\* database (every answer but the 400 of the validator) opened one session
\* and closed it.
C8_SessionsReleased ==
   /\ openSessions = 0
   /\ sessionLog \in {<<>>, <<"open", "close">>}
   /\ (resp # NoResp /\ resp.status # 400) => sessionLog = <<"open", "close">>

\* A request that ended in a database error, its session closed.
C8_Witness ==
   /\ resp.status = 500
   /\ req.op \in {"create", "update", "delete"}
   /\ sessionLog = <<"open", "close">>
   /\ openSessions = 0

\* C9: a request answered 400 or 404 leaves the table as it was; a PUT whose
\* body fails validation is answered 400 with the validator's message without
\* a session being opened, whether or not its id is in the table.
C9_ErrorsLeaveStore ==
   [][/\ (req'.op # "none" /\ resp'.status \in {400, 404}) => books' = books /\ nextId' = nextId
      /\ (req'.op = "update" /\ validate_book_payload(req'.data).err # NoErr) =>
            /\ resp'.status = 400
            /\ resp'.body = validate_book_payload(req'.data).err
            /\ sessionLog' = <<>>
            /\ books' = books]_vars

\* A PUT with an invalid body on an id that is not in the table, answered 400.
C9_Witness ==
   /\ req.op = "update"
   /\ req.id \notin DOMAIN books
   /\ validate_book_payload(req.data).err # NoErr
   /\ resp.status = 400

\* C10: in every listing response totalPages is max(1, ceil(total / pageSize))
\* and page is at least 1; when total > 0, page is at most totalPages.
C10_ReportedPageRange ==
   resp.kind = "list" =>
      /\ resp.totalPages >= 1
      /\ resp.totalPages * resp.pageSize >= resp.total
      /\ resp.totalPages > 1 => (resp.totalPages - 1) * resp.pageSize < resp.total
      /\ resp.page >= 1
      /\ resp.total > 0 => resp.page <= resp.totalPages

\* A listing asked for page 4 of fewer pages, reported as the last page.
C10_Witness ==
   /\ resp.kind = "list"
   /\ req.args.page = JStr(<<"4">>)
   /\ resp.total > 0
   /\ resp.totalPages < 4
   /\ resp.page = resp.totalPages
====
